---- MODULE Spec2Model ----
(***************************************************************************)
(* PipelinesConfig (boxdetect/config.py): the parameter store, its        *)
(* iteration count and broadcast, autoconfigure and the yaml persistence. *)
(*                                                                         *)
(* One PipelinesConfig object (cfg, its __dict__), one saved yaml file    *)
(* (file), the zip iterator returned by the last variables_as_iterators   *)
(* call (it) and the results of consuming it (passes).  last records the  *)
(* most recent operation, its inputs and its outcome.                      *)
(*                                                                         *)
(* Numbers: margin_percent is the rational pct/100 and a w/h ratio is the  *)
(* fraction <<num, den>>; arithmetic on them is exact.                     *)
(***************************************************************************)
EXTENDS Integers, Sequences, FiniteSets, TLC

VARIABLES cfg, file, it, passes, last, steps

vars == <<cfg, file, it, passes, last, steps>>

(***************************** bounds **************************************)
\* operations performed on the object in one run
MaxSteps == 3
\* boxes in one measurement sample
MaxBoxes == 2

(***************************** values **************************************)
\* An element of a field: k is its Python type, v its numbers, s its text.
PyInt(n) == [k |-> "int", v |-> <<n>>, s |-> ""]
PyFloat(n, d) == [k |-> "float", v |-> <<n, d>>, s |-> ""]
PyStr(t) == [k |-> "str", v |-> <<>>, s |-> t]
Pair(a, b) == [k |-> "tuple", v |-> <<a, b>>, s |-> ""]
PyList(a, b) == [k |-> "list", v |-> <<a, b>>, s |-> ""]
FloatPair(n1, d1, n2, d2) == [k |-> "ftuple", v |-> <<n1, d1, n2, d2>>, s |-> ""]
\* a tuple of two numpy.int64, a list of two numpy.float64
NpPair(a, b) == [k |-> "nptuple", v |-> <<a, b>>, s |-> ""]
NpFloatList(r1, r2) == [k |-> "npflist", v |-> r1 \o r2, s |-> ""]

\* An attribute of the object: a list of elements, anything else, or unset.
List(items) == [kind |-> "list", items |-> items]
Scalar(a) == [kind |-> "scalar", items |-> <<a>>]
Absent == [kind |-> "absent", items |-> <<>>]

Present(c) == {key \in DOMAIN c : c[key].kind # "absent"}

\* the attributes __init__ sets, num_iterations, and two names a file may add
DefaultNames ==
    {"width_range", "height_range", "wh_ratio_range", "scaling_factors",
     "thickness", "dilation_kernel", "dilation_iterations",
     "morph_kernels_type", "morph_kernels_thickness", "group_size_range",
     "vertical_max_distance", "horizontal_max_distance"}

ExtraNames == {"foo", "__x"}

Names == DefaultNames \cup {"num_iterations"} \cup ExtraNames

\* names save_yaml leaves out: key.startswith('__')
DunderNames == {"__x"}

Defaults ==
    [key \in Names |->
        CASE key = "width_range" -> List(<<Pair(40, 50)>>)
          [] key = "height_range" -> List(<<Pair(50, 60)>>)
          [] key = "wh_ratio_range" -> List(<<FloatPair(65, 100, 10, 100)>>)
          [] key = "scaling_factors" -> List(<<PyFloat(5, 10)>>)
          [] key = "thickness" -> Scalar(PyInt(2))
          [] key = "dilation_kernel" -> List(<<Pair(2, 2)>>)
          [] key = "dilation_iterations" -> List(<<PyInt(0)>>)
          [] key = "morph_kernels_type" -> List(<<PyStr("lines")>>)
          [] key = "morph_kernels_thickness" -> List(<<PyInt(1)>>)
          [] key = "group_size_range" -> Scalar(Pair(1, 100))
          [] key = "vertical_max_distance" -> List(<<PyInt(10)>>)
          [] key = "horizontal_max_distance" -> List(<<PyInt(40 * 2)>>)
          [] OTHER -> Absent]

(************************ update_num_iterations ****************************)
UpdateListShort ==
    <<"width_range", "height_range", "wh_ratio_range", "dilation_kernel",
      "dilation_iterations", "morph_kernels_type", "horizontal_max_distance",
      "morph_kernels_thickness">>

UpdateList ==
    <<"width_range", "height_range", "wh_ratio_range", "dilation_kernel",
      "dilation_iterations", "morph_kernels_type", "horizontal_max_distance",
      "morph_kernels_thickness", "vertical_max_distance">>

\* len(variable) after `if type(variable) is not list: variable = [variable]`
LenOf(x) == IF x.kind = "list" THEN Len(x.items) ELSE 1

RECURSIVE CountFrom(_, _, _, _)
CountFrom(c, fields, i, n) ==
    IF i > Len(fields) THEN n
    ELSE LET l == LenOf(c[fields[i]])
         IN CountFrom(c, fields, i + 1, IF n < l THEN l ELSE n)

UpdateNumIterations(c) ==
    [c EXCEPT !["num_iterations"] = Scalar(PyInt(CountFrom(c, UpdateList, 1, 1)))]

NumIterations(c) == c["num_iterations"].items[1].v[1]

(***************************** __conv_to_list ******************************)
Replicate(a, n) == [i \in 1..n |-> a]

\* [ok, items, same]: ok is FALSE for the IndexError of x[0] on an empty
\* list; same says that the result is the attribute's own list object.
ConvToListNoBroadcast(x, max_items) ==
    IF x.kind = "list"
    THEN [ok |-> TRUE, items |-> x.items, same |-> TRUE]
    ELSE [ok |-> TRUE, items |-> Replicate(x.items[1], max_items), same |-> FALSE]

ConvToListLast(x, max_items) ==
    IF x.kind = "list" /\ Len(x.items) >= max_items
    THEN [ok |-> TRUE, items |-> x.items, same |-> TRUE]
    ELSE IF x.kind = "list" /\ Len(x.items) = 0
    THEN [ok |-> FALSE, items |-> <<>>, same |-> FALSE]
    ELSE [ok |-> TRUE, items |-> Replicate(x.items[Len(x.items)], max_items),
          same |-> FALSE]

ConvToList(x, max_items) ==
    IF x.kind = "list" /\ Len(x.items) >= max_items
    THEN [ok |-> TRUE, items |-> x.items, same |-> TRUE]
    ELSE IF x.kind = "list" /\ Len(x.items) = 0
    THEN [ok |-> FALSE, items |-> <<>>, same |-> FALSE]
    ELSE [ok |-> TRUE, items |-> Replicate(x.items[1], max_items),
          same |-> FALSE]

(************************* variables_as_iterators **************************)
VariablesList ==
    <<"width_range", "height_range", "wh_ratio_range", "dilation_iterations",
      "dilation_kernel", "vertical_max_distance", "horizontal_max_distance",
      "morph_kernels_type", "morph_kernels_thickness">>

SetMin(S) == CHOOSE m \in S : \A y \in S : m <= y
SetMax(S) == CHOOSE m \in S : \A y \in S : y <= m

\* list(zip(*cols)): as many tuples as the shortest column has items
Zip(cols) ==
    LET n == SetMin({Len(cols[j]) : j \in DOMAIN cols})
    IN [i \in 1..n |-> [j \in DOMAIN cols |-> cols[j][i]]]

\* the columns __conv_to_list builds from the object after
\* update_num_iterations
Columns(c) ==
    [j \in DOMAIN VariablesList |->
        ConvToList(c[VariablesList[j]], NumIterations(c))]

NoIterator == [made |-> FALSE, cols |-> <<>>, same |-> {}, done |-> FALSE,
               atCall |-> <<>>]

\* The zip object: a list iterator per column.  A column in `same` iterates
\* the attribute's own list, every other one a list built for the call.
NewIterator(c) ==
    LET cs == Columns(c)
    IN [made |-> TRUE,
        cols |-> [j \in DOMAIN cs |-> cs[j].items],
        same |-> {j \in DOMAIN cs : cs[j].same},
        done |-> FALSE,
        atCall |-> Zip([j \in DOMAIN cs |-> cs[j].items])]

(***************************** autoconfigure *******************************)
\* int(n / d) for d > 0: Python's int() drops the fraction, towards zero
Trunc(n, d) == IF n >= 0 THEN n \div d ELSE -((-n) \div d)

AddMarginToSizeMax(size, pct, limit) ==
    LET calc_margin == Trunc(size * pct, 100)
    IN IF calc_margin > limit THEN calc_margin ELSE limit

AddMarginToSize(size, pct, limit) ==
    LET calc_margin == Trunc(size * pct, 100)
    IN IF calc_margin < limit THEN calc_margin ELSE limit

CalcMin(v, pct, limit) == v - AddMarginToSize(v, pct, limit)

CalcMaxInward(v, pct, limit) == v - AddMarginToSize(v, pct, limit)

CalcMax(v, pct, limit) == v + AddMarginToSize(v, pct, limit)

KernelTypeEither(maxh, maxw, useRect, thr) ==
    IF useRect /\ (maxh <= thr \/ maxw <= thr)
    THEN PyStr("rectangles") ELSE PyStr("lines")

KernelType(maxh, maxw, useRect, thr) ==
    IF useRect /\ maxh <= thr /\ maxw <= thr
    THEN PyStr("rectangles") ELSE PyStr("lines")

\* a / b on numpy.int64: a fraction; b = 0 gives inf, -inf or nan, no error
IsNan(r) == r[1] = 0 /\ r[2] = 0

FLess(x, y) ==
    LET nx == IF x[2] < 0 THEN <<-x[1], -x[2]>> ELSE x
        ny == IF y[2] < 0 THEN <<-y[1], -y[2]>> ELSE y
    IN CASE IsNan(x) \/ IsNan(y) -> FALSE
         [] x[2] = 0 -> x[1] < 0 /\ ~(y[2] = 0 /\ y[1] < 0)
         [] y[2] = 0 -> y[1] > 0
         [] OTHER -> nx[1] * ny[2] < ny[1] * nx[2]

\* sorted((a, b))
Sorted2(a, b) == IF FLess(b, a) THEN NpFloatList(b, a) ELSE NpFloatList(a, b)

Members(clusters, i) == {j \in DOMAIN clusters : clusters[j] = i}

\* range(0, max(clusters) + 1)
NumGroups(clusters) == SetMax({clusters[j] : j \in DOMAIN clusters}) + 1

\* one entry of hw_grouped; a box is <<height, width>>
GroupRow(boxes, clusters, i, pct, limit, useRect, thr) ==
    LET group == Members(clusters, i)
        minh == SetMin({boxes[j][1] : j \in group})
        maxh == SetMax({boxes[j][1] : j \in group})
        minw == SetMin({boxes[j][2] : j \in group})
        maxw == SetMax({boxes[j][2] : j \in group})
        calc_minh == CalcMin(minh, pct, limit)
        calc_maxh == CalcMax(maxh, pct, limit)
        calc_minw == CalcMin(minw, pct, limit)
        calc_maxw == CalcMax(maxw, pct, limit)
    IN [h |-> NpPair(calc_minh, calc_maxh),
        w |-> NpPair(calc_minw, calc_maxw),
        r |-> Sorted2(<<calc_minw, calc_minh>>, <<calc_maxw, calc_maxh>>),
        t |-> KernelType(maxh, maxw, useRect, thr)]

\* Whether the call raises before line 128: an empty sample (fit_predict,
\* max of nothing), a label 0..max with no member (min of nothing), or no
\* label >= 0 at all (hw_grouped[:, 1] of an empty array).
AutoconfigureRaises(boxes, clusters) ==
    \/ Len(boxes) = 0
    \/ NumGroups(clusters) = 0
    \/ \E i \in 0..(NumGroups(clusters) - 1) : Members(clusters, i) = {}

\* lines 100-133 when nothing raises.  np.asarray keeps each row's tuples
\* and list as objects (numpy before 1.24; later versions raise ValueError
\* at line 126, before any field is assigned).
Calibrated(c, boxes, clusters, pct, limit, useRect, thr) ==
    LET k == NumGroups(clusters)
        row(i) == GroupRow(boxes, clusters, i - 1, pct, limit, useRect, thr)
    IN UpdateNumIterations(
           [c EXCEPT !["width_range"] = List([i \in 1..k |-> row(i).w]),
                     !["height_range"] = List([i \in 1..k |-> row(i).h]),
                     !["wh_ratio_range"] = List([i \in 1..k |-> row(i).r]),
                     !["morph_kernels_type"] = List([i \in 1..k |-> row(i).t])])

AutoconfigureClearsFirst(c, boxes, clusters, pct, limit, useRect, thr) ==
    IF AutoconfigureRaises(boxes, clusters)
    THEN [ok |-> FALSE,
          cfg |-> [c EXCEPT !["width_range"] = List(<<>>),
                            !["height_range"] = List(<<>>)]]
    ELSE [ok |-> TRUE,
          cfg |-> Calibrated(c, boxes, clusters, pct, limit, useRect, thr)]

\* [ok, cfg]: ok is FALSE when the call raises, and cfg is the object after
Autoconfigure(c, boxes, clusters, pct, limit, useRect, thr) ==
    IF AutoconfigureRaises(boxes, clusters)
    THEN [ok |-> FALSE, cfg |-> c]
    ELSE [ok |-> TRUE,
          cfg |-> Calibrated(c, boxes, clusters, pct, limit, useRect, thr)]

(************************* save_yaml and load_yaml *************************)
\* A yaml node: tag is the node's own tag ("" for a plain scalar, "seq" for
\* an untagged sequence), child the tag of its scalars.
NumpyScalarTag == "python/object/apply:numpy.core.multiarray.scalar"

\* yaml.dump (the default Dumper) of one element
DumpAtom(a) ==
    CASE a.k = "int" -> [tag |-> "", child |-> "int", v |-> a.v, s |-> a.s]
      [] a.k = "float" -> [tag |-> "", child |-> "float", v |-> a.v, s |-> a.s]
      [] a.k = "str" -> [tag |-> "", child |-> "str", v |-> a.v, s |-> a.s]
      [] a.k = "tuple" -> [tag |-> "python/tuple", child |-> "int", v |-> a.v, s |-> a.s]
      [] a.k = "list" -> [tag |-> "seq", child |-> "int", v |-> a.v, s |-> a.s]
      [] a.k = "ftuple" -> [tag |-> "python/tuple", child |-> "float", v |-> a.v, s |-> a.s]
      [] a.k = "nptuple" ->
            [tag |-> "python/tuple", child |-> NumpyScalarTag, v |-> a.v, s |-> a.s]
      [] a.k = "npflist" ->
            [tag |-> "seq", child |-> NumpyScalarTag, v |-> a.v, s |-> a.s]

\* yaml.load of one node; a numpy scalar node has 2 numbers as an integer
\* pair's items and 4 as a ratio pair's
LoadAtom(n) ==
    CASE n.tag = "" /\ n.child = "int" -> [k |-> "int", v |-> n.v, s |-> n.s]
      [] n.tag = "" /\ n.child = "float" -> [k |-> "float", v |-> n.v, s |-> n.s]
      [] n.tag = "" /\ n.child = "str" -> [k |-> "str", v |-> n.v, s |-> n.s]
      [] n.tag = "python/tuple" /\ n.child = "int" -> [k |-> "tuple", v |-> n.v, s |-> n.s]
      [] n.tag = "seq" /\ n.child = "int" -> [k |-> "list", v |-> n.v, s |-> n.s]
      [] n.tag = "python/tuple" /\ n.child = "float" -> [k |-> "ftuple", v |-> n.v, s |-> n.s]
      [] n.tag = "python/tuple" /\ n.child = NumpyScalarTag ->
            [k |-> "nptuple", v |-> n.v, s |-> n.s]
      [] n.tag = "seq" /\ n.child = NumpyScalarTag ->
            [k |-> "npflist", v |-> n.v, s |-> n.s]

DumpItems(q) == [i \in DOMAIN q |-> DumpAtom(q[i])]

LoadItems(q) == [i \in DOMAIN q |-> LoadAtom(q[i])]

\* the mapping save_yaml dumps: every attribute whose name does not start
\* with '__' (callable(key) is False for every name)
SaveYaml(c) ==
    [key \in Names |->
        IF key \in DunderNames \/ c[key].kind = "absent" THEN Absent
        ELSE [kind |-> c[key].kind, items |-> DumpItems(c[key].items)]]

DocKeys(doc) == {key \in DOMAIN doc : doc[key].kind # "absent"}

\* FullLoader constructs python/tuple; python/object/apply is constructed by
\* PyYAML 5.1 only and is a ConstructorError from 5.2 on.
NeedsObjectApply(doc) ==
    \E key \in DocKeys(doc) : \E i \in DOMAIN doc[key].items :
        doc[key].items[i].child = NumpyScalarTag

LoadValue(x) == [kind |-> x.kind, items |-> LoadItems(x.items)]

\* [ok, cfg, warned]: yaml.load raises before any attribute is set; warned
\* are the keys line 169 prints a warning for
LoadYaml(c, doc, suppress_warnings, objectApply) ==
    IF NeedsObjectApply(doc) /\ ~objectApply
    THEN [ok |-> FALSE, cfg |-> c, warned |-> {}]
    ELSE [ok |-> TRUE,
          cfg |-> UpdateNumIterations(
              [key \in Names |->
                  IF key \in DocKeys(doc) THEN LoadValue(doc[key]) ELSE c[key]]),
          warned |-> {key \in DocKeys(doc) :
                         ~suppress_warnings /\ key \notin Present(c)}]

\* __init__: the defaults, load_yaml when a path is given, then
\* update_num_iterations; num_iterations is not set before line 47
Construct(hasPath, doc, objectApply) ==
    IF hasPath
    THEN LET r == LoadYaml(Defaults, doc, FALSE, objectApply)
         IN [ok |-> r.ok, cfg |-> UpdateNumIterations(r.cfg), warned |-> r.warned]
    ELSE [ok |-> TRUE, cfg |-> UpdateNumIterations(Defaults), warned |-> {}]

(******************************* inputs ************************************)
NodeInt(n) == [tag |-> "", child |-> "int", v |-> <<n>>, s |-> ""]
NodeIntSeq(a, b) == [tag |-> "seq", child |-> "int", v |-> <<a, b>>, s |-> ""]

NoDoc == [key \in Names |-> Absent]

\* foo: 3
DocFoo == [NoDoc EXCEPT !["foo"] = Scalar(NodeInt(3))]

\* height_range: [[50, 60], [60, 70]] and a num_iterations of 7
DocHeights ==
    [NoDoc EXCEPT !["height_range"] = List(<<NodeIntSeq(50, 60), NodeIntSeq(60, 70)>>),
                  !["num_iterations"] = Scalar(NodeInt(7))]

\* every field update_num_iterations reads: []
DocEmpty ==
    [key \in Names |->
        IF \E i \in DOMAIN UpdateList : UpdateList[i] = key THEN List(<<>>)
        ELSE Absent]

\* __x: 1
DocDunder == [NoDoc EXCEPT !["__x"] = Scalar(NodeInt(1))]

Docs == {DocFoo, DocHeights, DocEmpty, DocDunder}

\* what a caller assigns to a field, and the fields it assigns to
AssignValues ==
    {Scalar(PyInt(7)), List(<<>>), List(<<Pair(50, 60), Pair(60, 70)>>),
     List(<<PyInt(1), PyInt(2), PyInt(3)>>)}

AssignFields == {"height_range", "vertical_max_distance"}

\* measured boxes, <<height, width>>
BoxPool == {<<20, 20>>, <<22, 28>>, <<35, 25>>, <<60, 60>>, <<-15, 20>>, <<0, 9>>}

Samples == UNION {[1..n -> BoxPool] : n \in 0..MaxBoxes}

\* what the clustering may answer for n points: a label, or -1, per point
Labellings(n) == [1..n -> (-1)..(n - 1)]

Percents == {-10, 10}
Limits == {-2, 5}
Thresholds == {30}

\* the calls of the store's own runs: [boxes, clusters]
SmallCalls ==
    {[boxes |-> <<>>, clusters |-> <<>>],
     [boxes |-> <<<<20, 20>>>>, clusters |-> <<-1>>],
     [boxes |-> <<<<20, 20>>>>, clusters |-> <<0>>],
     [boxes |-> <<<<20, 22>>, <<60, 60>>>>, clusters |-> <<0, 1>>]}

(******************************* state *************************************)
NoFile == [exists |-> FALSE, doc |-> NoDoc, of |-> Defaults]

Blank ==
    [op |-> "new", ok |-> TRUE, pre |-> Defaults, hasDoc |-> FALSE,
     doc |-> NoDoc, saved |-> FALSE, suppress |-> FALSE, warned |-> {},
     boxes |-> <<>>, clusters |-> <<>>, pct |-> 0, limit |-> 0,
     useRect |-> FALSE, thr |-> 0, tuples |-> <<>>]

\* PipelinesConfig()
Init ==
    /\ cfg = Construct(FALSE, NoDoc, FALSE).cfg
    /\ file = NoFile
    /\ it = NoIterator
    /\ passes = <<>>
    /\ last = Blank
    /\ steps = 0

\* the iterator's columns that are field f's own list lose it when f is
\* bound to another object
Rebound(i, fields) ==
    [i EXCEPT !.same = {j \in i.same : VariablesList[j] \notin fields}]

(****************************** actions ************************************)
\* cfg = PipelinesConfig(yaml_path): a new object replaces the old one; when
\* __init__ raises there is no new object
ConstructStep(hasPath, doc, saved, objectApply) ==
    LET r == Construct(hasPath, doc, objectApply)
    IN /\ steps < MaxSteps
       /\ cfg' = IF r.ok THEN r.cfg ELSE cfg
       /\ it' = IF r.ok THEN NoIterator ELSE it
       /\ passes' = IF r.ok THEN <<>> ELSE passes
       /\ last' = [Blank EXCEPT !.op = "construct", !.ok = r.ok,
                                !.pre = Defaults, !.hasDoc = hasPath,
                                !.doc = doc, !.saved = saved,
                                !.warned = r.warned]
       /\ steps' = steps + 1
       /\ UNCHANGED file

ConstructPlain == ConstructStep(FALSE, NoDoc, FALSE, FALSE)

ConstructFromDoc == \E doc \in Docs : ConstructStep(TRUE, doc, FALSE, FALSE)

ConstructFromSaved ==
    /\ file.exists
    /\ \E objectApply \in BOOLEAN :
          /\ (objectApply => NeedsObjectApply(file.doc))
          /\ ConstructStep(TRUE, file.doc, TRUE, objectApply)

\* cfg.<f> = value
Assign ==
    \E f \in AssignFields, value \in AssignValues :
        /\ steps < MaxSteps
        /\ cfg' = [cfg EXCEPT ![f] = value]
        /\ it' = Rebound(it, {f})
        /\ last' = [Blank EXCEPT !.op = "assign", !.pre = cfg]
        /\ steps' = steps + 1
        /\ UNCHANGED <<file, passes>>

\* cfg.<f>[0] = value, cfg.<f>.append(value): the list object changes, and
\* with it what an iterator over that object will yield
MutateInPlace ==
    \E f \in AssignFields, how \in {"setitem", "append"} :
        LET old == cfg[f].items
            new == IF how = "append" THEN Append(old, PyInt(9))
                   ELSE [old EXCEPT ![1] = PyInt(9)]
        IN /\ steps < MaxSteps
           /\ cfg[f].kind = "list"
           /\ how = "setitem" => Len(old) > 0
           /\ cfg' = [cfg EXCEPT ![f] = List(new)]
           /\ it' = [it EXCEPT !.cols =
                        [j \in DOMAIN it.cols |->
                            IF j \in it.same /\ VariablesList[j] = f
                            THEN new ELSE it.cols[j]]]
           /\ last' = [Blank EXCEPT !.op = "mutate", !.pre = cfg]
           /\ steps' = steps + 1
           /\ UNCHANGED <<file, passes>>

\* cfg.save_yaml(path)
Save ==
    /\ steps < MaxSteps
    /\ file' = [exists |-> TRUE, doc |-> SaveYaml(cfg), of |-> cfg]
    /\ last' = [Blank EXCEPT !.op = "save", !.pre = cfg]
    /\ steps' = steps + 1
    /\ UNCHANGED <<cfg, it, passes>>

\* cfg.load_yaml(path, suppress_warnings)
LoadStep(doc, saved, suppress, objectApply) ==
    LET r == LoadYaml(cfg, doc, suppress, objectApply)
    IN /\ steps < MaxSteps
       /\ cfg' = r.cfg
       /\ it' = IF r.ok THEN Rebound(it, DocKeys(doc)) ELSE it
       /\ last' = [Blank EXCEPT !.op = "load", !.ok = r.ok, !.pre = cfg,
                                !.hasDoc = TRUE, !.doc = doc, !.saved = saved,
                                !.suppress = suppress, !.warned = r.warned]
       /\ steps' = steps + 1
       /\ UNCHANGED <<file, passes>>

LoadDoc == \E doc \in Docs, suppress \in BOOLEAN : LoadStep(doc, FALSE, suppress, FALSE)

LoadSaved ==
    /\ file.exists
    /\ \E suppress \in BOOLEAN, objectApply \in BOOLEAN :
          /\ (objectApply => NeedsObjectApply(file.doc))
          /\ LoadStep(file.doc, TRUE, suppress, objectApply)

\* cfg.autoconfigure(boxes, ...), the clustering answering `clusters`
AutoconfigureStep(boxes, clusters, pct, limit, useRect, thr) ==
    LET r == Autoconfigure(cfg, boxes, clusters, pct, limit, useRect, thr)
    IN /\ cfg' = r.cfg
       /\ it' = IF r.ok
                THEN Rebound(it, {"width_range", "height_range",
                                  "wh_ratio_range", "morph_kernels_type"})
                ELSE it
       /\ last' = [Blank EXCEPT !.op = "autoconfigure", !.ok = r.ok,
                                !.pre = cfg, !.boxes = boxes,
                                !.clusters = clusters, !.pct = pct,
                                !.limit = limit, !.useRect = useRect,
                                !.thr = thr]
       /\ steps' = steps + 1
       /\ UNCHANGED <<file, passes>>

\* with the default margin_percent=0.1, margin_px_limit=5,
\* use_rect_kernel_for_small=False, rect_kernel_threshold=30
AutoconfigureSmall ==
    /\ steps < MaxSteps
    /\ \E call \in SmallCalls :
          AutoconfigureStep(call.boxes, call.clusters, 10, 5, FALSE, 30)

AutoconfigureAny ==
    /\ steps = 0
    /\ \E boxes \in Samples :
          \E clusters \in Labellings(Len(boxes)), pct \in Percents,
             limit \in Limits, useRect \in BOOLEAN, thr \in Thresholds :
              AutoconfigureStep(boxes, clusters, pct, limit, useRect, thr)

\* z = cfg.variables_as_iterators(): num_iterations is updated first; an
\* empty list among the fields is the IndexError of x[0], and no iterator
VariablesAsIterators ==
    LET c == UpdateNumIterations(cfg)
        fails == \E j \in DOMAIN VariablesList : ~Columns(c)[j].ok
    IN /\ steps < MaxSteps
       /\ cfg' = c
       /\ it' = IF fails THEN it ELSE NewIterator(c)
       /\ passes' = IF fails THEN passes ELSE <<>>
       /\ last' = [Blank EXCEPT !.op = "variables_as_iterators", !.ok = ~fails, !.pre = cfg,
                                !.tuples = IF fails THEN <<>>
                                           ELSE NewIterator(c).atCall]
       /\ steps' = steps + 1
       /\ UNCHANGED file

\* list(z): every tuple the zip object still yields; it is spent afterwards
Consume ==
    /\ steps < MaxSteps
    /\ it.made
    /\ passes' = Append(passes, IF it.done THEN <<>> ELSE Zip(it.cols))
    /\ it' = [it EXCEPT !.done = TRUE]
    /\ last' = [Blank EXCEPT !.op = "consume", !.pre = cfg]
    /\ steps' = steps + 1
    /\ UNCHANGED <<cfg, file>>

\* the store: construction, assignment, load, calibration and expansion
Next ==
    \/ ConstructPlain
    \/ Assign
    \/ MutateInPlace
    \/ LoadDoc
    \/ AutoconfigureSmall
    \/ VariablesAsIterators
    \/ Consume

Spec == Init /\ [][Next]_vars

\* persistence: objects constructed, calibrated, saved and loaded
NextPersist ==
    \/ ConstructPlain
    \/ ConstructFromDoc
    \/ ConstructFromSaved
    \/ Save
    \/ LoadDoc
    \/ LoadSaved
    \/ AutoconfigureSmall

SpecPersist == Init /\ [][NextPersist]_vars

\* autoconfigure on a new object, over every sample, labelling and setting
NextCal == AutoconfigureAny

SpecCal == Init /\ [][NextCal]_vars

(******************************* claims ************************************)
\* the nine fields the iteration count is taken over
TrackedNames ==
    {"width_range", "height_range", "wh_ratio_range", "dilation_kernel",
     "dilation_iterations", "morph_kernels_type", "morph_kernels_thickness",
     "vertical_max_distance", "horizontal_max_distance"}

\* max over the nine fields of (1 if the field is scalar, else its length)
MaxOverTracked(c) ==
    SetMax({IF c[f].kind = "list" THEN Len(c[f].items) ELSE 1 : f \in TrackedNames})

Recomputed ==
    \/ last.op \in {"new", "variables_as_iterators"}
    \/ last.op \in {"construct", "load", "autoconfigure"} /\ last.ok

\* C1 as stated: in every reachable state, also right after a direct
\* assignment to a tracked field, num_iterations equals the maximum over
\* the nine tracked fields of (1 if scalar, else the length).
C1_CountAlwaysCurrent == NumIterations(cfg) = MaxOverTracked(cfg)

\* C1 amended: right after Construct, Load, a successful Calibrate or
\* ExpandToTuples, num_iterations equals the larger of 1 and the maximum
\* over the nine tracked fields of (1 if scalar, else the length).
C1_CountCurrentAfterRecompute ==
    Recomputed =>
        NumIterations(cfg) =
            IF MaxOverTracked(cfg) < 1 THEN 1 ELSE MaxOverTracked(cfg)

\* an expansion recomputed a count that an assignment had left out of date
C1_Witness ==
    /\ last.op = "variables_as_iterators"
    /\ NumIterations(last.pre) # NumIterations(cfg)
    /\ NumIterations(cfg) = MaxOverTracked(cfg)

NoEmptyTracked(c) ==
    \A f \in TrackedNames : ~(c[f].kind = "list" /\ Len(c[f].items) = 0)

\* C2 as stated: for any ParameterSet, lists of any length included,
\* ExpandToTuples yields exactly num_iterations tuples.
C2_ExpandYieldsCount ==
    last.op = "variables_as_iterators" => last.ok /\ Len(last.tuples) = NumIterations(cfg)

\* C2 amended: for any ParameterSet none of whose tracked fields is an empty
\* list, ExpandToTuples yields exactly num_iterations tuples.
C2_ExpandYieldsCountNonEmpty ==
    last.op = "variables_as_iterators" /\ NoEmptyTracked(cfg) =>
        last.ok /\ Len(last.tuples) = NumIterations(cfg)

\* an expansion to three tuples of a store holding a scalar, a one-element
\* list and a three-element list
C2_Witness ==
    /\ last.op = "variables_as_iterators" /\ last.ok
    /\ Len(last.tuples) = 3
    /\ \E f \in TrackedNames : cfg[f].kind = "scalar"
    /\ \E f \in TrackedNames : cfg[f].kind = "list" /\ Len(cfg[f].items) = 1

\* the order of a tuple's fields
TupleOrder ==
    <<"width_range", "height_range", "wh_ratio_range", "dilation_iterations",
      "dilation_kernel", "vertical_max_distance", "horizontal_max_distance",
      "morph_kernels_type", "morph_kernels_thickness">>

\* the broadcast value of field x at index i of n (i from 1)
BroadcastAt(x, i, n) ==
    IF x.kind # "list" THEN x.items[1]
    ELSE IF Len(x.items) < n THEN x.items[1]
    ELSE x.items[i]

\* C3: the i-th tuple of ExpandToTuples holds, in the fixed order, each
\* field's broadcast value at i: the scalar, the first element of a
\* non-empty list shorter than num_iterations, the i-th element otherwise.
C3_BroadcastValues ==
    last.op = "variables_as_iterators" /\ last.ok =>
        \A i \in 1..NumIterations(cfg) :
            /\ i <= Len(last.tuples)
            /\ \A j \in DOMAIN TupleOrder :
                  last.tuples[i][j] =
                      BroadcastAt(cfg[TupleOrder[j]], i, NumIterations(cfg))

\* width_range=[(40,50)] and height_range=[(50,60),(60,70)]: width (40,50)
\* in both tuples, heights (50,60) then (60,70)
C3_Witness ==
    /\ last.op = "variables_as_iterators" /\ last.ok
    /\ Len(last.tuples) = 2
    /\ last.tuples[1][1] = Pair(40, 50) /\ last.tuples[2][1] = Pair(40, 50)
    /\ last.tuples[1][2] = Pair(50, 60) /\ last.tuples[2][2] = Pair(60, 70)

\* C4: a Load (into the object itself or into a new one) of the file the
\* last Save wrote succeeds and gives every field of the saved
\* ParameterSet, num_iterations included, the value it had when saved
\* (stated here for the fields Save writes: those not named '__...').
C4_RoundTrip ==
    last.op \in {"load", "construct"} /\ last.saved =>
        /\ last.ok
        /\ \A key \in Present(file.of) \ DunderNames : cfg[key] = file.of[key]

\* no label >= 0: the clustering yields zero groups
ZeroGroups(clusters) == \A j \in DOMAIN clusters : clusters[j] < 0

\* C5: Calibrate on an empty sample, or with zero groups, ends in an error
\* and leaves every field of the ParameterSet as it was before the call.
C5_FailedCalibrateLeavesFields ==
    last.op = "autoconfigure" /\ ZeroGroups(last.clusters) =>
        ~last.ok /\ cfg = last.pre

\* a failed calibration of a store that no longer holds the defaults
C5_Witness ==
    /\ last.op = "autoconfigure" /\ ~last.ok
    /\ Len(last.boxes) = 0
    /\ last.pre["height_range"] # Defaults["height_range"]

\* the field names of a ParameterSet: its attributes, and num_iterations,
\* which every constructed ParameterSet has
Recognized(c) == Present(c) \cup {"num_iterations"}

\* C6: in every Load, the one of Construct included, a warning is emitted
\* for a key iff suppressWarnings is false and the key is not a field name
\* of the ParameterSet, and every key is set to the loaded value (the
\* count itself is recomputed by the Load).
C6_WarnIffUnrecognized ==
    last.op \in {"load", "construct"} /\ last.hasDoc /\ last.ok =>
        /\ last.warned = {key \in DocKeys(last.doc) :
                             ~last.suppress /\ key \notin Recognized(last.pre)}
        /\ \A key \in DocKeys(last.doc) \ {"num_iterations"} :
              cfg[key] = LoadValue(last.doc[key])

\* the groups of the last calibration, and their tight bounds
Groups == 0..(SetMax({last.clusters[j] : j \in DOMAIN last.clusters}))
MinH(i) == SetMin({last.boxes[j][1] : j \in Members(last.clusters, i)})
MaxH(i) == SetMax({last.boxes[j][1] : j \in Members(last.clusters, i)})
MinW(i) == SetMin({last.boxes[j][2] : j \in Members(last.clusters, i)})
MaxW(i) == SetMax({last.boxes[j][2] : j \in Members(last.clusters, i)})

AutoconfigureDone == last.op = "autoconfigure" /\ last.ok

\* min(margin_px_limit, floor(value * margin_percent))
FloorMargin(v) ==
    LET m == (v * last.pct) \div 100
    IN IF m < last.limit THEN m ELSE last.limit

\* min(margin_px_limit, value * margin_percent with its fraction dropped)
TruncMargin(v) ==
    LET p == v * last.pct
        m == IF p >= 0 THEN p \div 100 ELSE 0 - ((0 - p) \div 100)
    IN IF m < last.limit THEN m ELSE last.limit

\* C7 as stated: each padded bound is the tight bound moved outward by
\* min(margin_px_limit, floor(value * margin_percent)).
C7_PaddedByFloorMargin ==
    AutoconfigureDone =>
        \A i \in Groups :
            /\ cfg["height_range"].items[i + 1].v =
                  <<MinH(i) - FloorMargin(MinH(i)), MaxH(i) + FloorMargin(MaxH(i))>>
            /\ cfg["width_range"].items[i + 1].v =
                  <<MinW(i) - FloorMargin(MinW(i)), MaxW(i) + FloorMargin(MaxW(i))>>

\* C7 amended: each padded bound is the tight bound moved by
\* min(margin_px_limit, trunc(value * margin_percent)), trunc dropping the
\* fraction towards zero (floor when value * margin_percent >= 0).
C7_PaddedByTruncMargin ==
    AutoconfigureDone =>
        \A i \in Groups :
            /\ cfg["height_range"].items[i + 1].v =
                  <<MinH(i) - TruncMargin(MinH(i)), MaxH(i) + TruncMargin(MaxH(i))>>
            /\ cfg["width_range"].items[i + 1].v =
                  <<MinW(i) - TruncMargin(MinW(i)), MaxW(i) + TruncMargin(MaxW(i))>>

\* minh=20, maxh=22, margin_percent=0.1, margin_px_limit=5 gives (18, 24)
C7_Witness ==
    /\ AutoconfigureDone
    /\ last.pct = 10 /\ last.limit = 5
    /\ MinH(0) = 20 /\ MaxH(0) = 22
    /\ cfg["height_range"].items[1].v = <<18, 24>>

\* C8: a group's morph_kernels_type is "rectangles" iff
\* use_rect_kernel_for_small is on and both its unpadded max height and max
\* width are <= rect_kernel_threshold, and "lines" otherwise.
C8_KernelPolicy ==
    AutoconfigureDone =>
        \A i \in Groups :
            cfg["morph_kernels_type"].items[i + 1].s =
                IF last.useRect /\ MaxH(i) <= last.thr /\ MaxW(i) <= last.thr
                THEN "rectangles" ELSE "lines"

\* with the flag on, a small group gets "rectangles" and a group with max
\* height 35 and a width under the threshold gets "lines"
C8_Witness ==
    /\ AutoconfigureDone /\ last.useRect
    /\ \E i \in Groups : cfg["morph_kernels_type"].items[i + 1].s = "rectangles"
    /\ \E i \in Groups :
          /\ MaxH(i) = 35 /\ MaxW(i) <= last.thr
          /\ cfg["morph_kernels_type"].items[i + 1].s = "lines"

\* C9: the sequence ExpandToTuples returned yields, every time it is
\* consumed, the tuples of the field values at the call, whatever is done
\* to the ParameterSet after the call.
C9_SequenceIsRestartableSnapshot ==
    \A p \in DOMAIN passes : passes[p] = it.atCall

\* the labels are 0..k-1, each with a member
DenseLabels(clusters) ==
    /\ \A j \in DOMAIN clusters : clusters[j] >= 0
    /\ \A i \in 0..SetMax({clusters[j] : j \in DOMAIN clusters}) :
          Members(clusters, i) # {}

\* C10: after a successful Calibrate on non-negative sizes with
\* margin_percent >= 0 and margin_px_limit >= 0 and labels 0..k-1, the four
\* calibrated fields have k entries each and every sample lies within the
\* height and width range of its label.
C10_RangesCoverSamples ==
    /\ AutoconfigureDone
    /\ last.pct >= 0 /\ last.limit >= 0
    /\ DenseLabels(last.clusters)
    /\ \A j \in DOMAIN last.boxes : last.boxes[j][1] >= 0 /\ last.boxes[j][2] >= 0
    =>
    LET k == Cardinality({last.clusters[j] : j \in DOMAIN last.clusters})
    IN /\ \A f \in {"width_range", "height_range", "wh_ratio_range",
                    "morph_kernels_type"} :
              cfg[f].kind = "list" /\ Len(cfg[f].items) = k
       /\ \A j \in DOMAIN last.boxes :
              LET hr == cfg["height_range"].items[last.clusters[j] + 1].v
                  wr == cfg["width_range"].items[last.clusters[j] + 1].v
              IN /\ hr[1] <= last.boxes[j][1] /\ last.boxes[j][1] <= hr[2]
                 /\ wr[1] <= last.boxes[j][2] /\ last.boxes[j][2] <= wr[2]

\* two groups, one padded by the clamped margin
C10_Witness ==
    /\ AutoconfigureDone
    /\ last.pct = 10 /\ last.limit = 5
    /\ last.boxes = <<<<22, 28>>, <<60, 60>>>>
    /\ last.clusters = <<0, 1>>
    /\ cfg["height_range"].items[2].v = <<55, 65>>

====
